---- MODULE Spec2Model ----
(***************************************************************************)
(* Model of the Eternal Ledger gateway (src/index.js): the four request    *)
(* handlers /upload, /bind-identity, /record-death and /search-by-nric,    *)
(* the helper uploadFileToIPFS, the identity-registry contract they call   *)
(* through ethers, the storage network and the local staging directory.    *)
(* Every `await` of a handler is one step.  index.js keeps no mutable      *)
(* state of its own between requests: a request meets the others only in   *)
(* the registry, the store and the staging directory.  Spec handles one    *)
(* request at a time, while the registry owner and the clock act between   *)
(* any two steps of it.                                                    *)
(***************************************************************************)
EXTENDS Naturals, Sequences, FiniteSets, TLC

\* ------------------------------------------------------------------ bounds
\* Total number of requests the gateway receives in one behaviour.
MaxRequests == 3
\* Largest value of Date.now() / block time.
MaxClock == 1
\* Number of death tokens the registry can mint in one behaviour.
MaxMints == 2

\* The request slots: requests being handled concurrently by the event loop.
Slots == {"r1", "r2"}
\* The slot Spec handles its requests in, one after the other.
Main == "r1"

\* ------------------------------------------------------------ value domains
\* ethers.ZeroAddress (index.js:201, 206, 240, 257): the "unbound" sentinel.
ZeroAddress == "0x0000000000000000000000000000000000000000"
\* The empty string, the "no identity" sentinel of walletToNric (index.js:207)
\* and the value of a missing body field.
Empty == ""

Nrics == {"S1234567A", "T7654321B"}
Wallets == {"0xAAAAaaaaAAAAaaaaAAAAaaaaAAAAaaaaAAAAaaaa",
            "0xBBBBbbbbBBBBbbbbBBBBbbbbBBBBbbbbBBBBbbbb"}
\* A wallet field that is not an address at all.
BadWallet == "not-an-address"

\* Optional values: <<>> is JavaScript null / not yet assigned.
None == <<>>
Some(v) == <<v>>

\* Files of a multipart request (express-fileupload objects).
NoFile == [name |-> "", mimetype |-> "", data |-> ""]
Files == { [name |-> "cert.pdf", mimetype |-> "application/pdf", data |-> "d1"],
           [name |-> "note.txt", mimetype |-> "text/plain",      data |-> "d1"] }

\* A metadata CID supplied directly in the body of /record-death.
GivenCIDs == {"bafyGiven"}

\* uploadFileToIPFS: const allowedTypes
allowedTypes == {"application/pdf", "image/jpeg", "image/png", "application/json"}

\* ethers.isAddress(wallet)
isAddress(w) == w \in Wallets \cup {ZeroAddress}

\* join(tmpdir(), `upload-${Date.now()}-${file.name}`)
TempPath(t, name) == "/tmp/upload-" \o ToString(t) \o "-" \o name

Paths == { TempPath(t, f.name) : t \in 0..MaxClock, f \in Files }

\* A staging path with no file behind it.
Absent == "<absent>"

\* The content-addressed store: the CID is a function of the bytes only.
CidOf(data) == "bafy-" \o data

\* Variant of TokenURI that leaves the scheme out.
TokenURIBare(cid) == cid

\* `ipfs://${record.metadataCID}`
TokenURI(cid) == "ipfs://" \o cid

\* records(tokenId) of a token that was never minted (Solidity default).
NoRecord == [metadataCID |-> "", timestamp |-> 0]

\* --------------------------------------------------------------- the state
VARIABLES
  nricToWallet,    \* registry: nric -> wallet (ZeroAddress when unbound)
  walletToNric,    \* registry: wallet -> nric ("" when unbound)
  authorized,      \* registry: authorizedRegistrars[signer wallet]
  deceased,        \* registry: isDeceased[nric]
  tokenByNric,     \* registry: getTokenByNric[nric]
  records,         \* registry: records[tokenId]
  nextTokenId,     \* registry: id of the next token minted
  tmpFiles,        \* os.tmpdir(): staging path -> bytes, or Absent
  store,           \* the storage network: CIDs uploaded so far
  now,             \* Date.now() / block time
  op,              \* per slot: the request being handled and its locals
  seq,             \* number of requests received so far
  everBound        \* history: every <<nric, wallet>> a bindIdentity write set

vars == << nricToWallet, walletToNric, authorized, deceased, tokenByNric,
           records, nextTokenId, tmpFiles, store, now, op, seq,
           everBound >>

ledger == << nricToWallet, walletToNric, authorized, deceased, tokenByNric,
             records, nextTokenId >>

\* A slot before its first request.
IdleOp == [ kind |-> "none", pc |-> "idle",
            nric |-> Empty, wallet |-> Empty, metadataCID |-> Empty,
            file |-> NoFile,
            tempFilePath |-> Empty, cid |-> Empty, finalCID |-> Empty,
            existingWallet |-> None, existingNric |-> None,
            isAuthorized |-> None, boundWallet |-> None,
            isDeceased |-> None, tokenId |-> None, record |-> None,
            calls |-> << >>,
            status |-> 0, body |-> [none |-> TRUE], responses |-> 0,
            after |-> None ]

Running(s) == op[s].pc \notin {"idle", "done"}

Init ==
  /\ nricToWallet = [n \in Nrics |-> ZeroAddress]
  /\ walletToNric = [w \in Wallets |-> Empty]
  /\ authorized \in BOOLEAN
  /\ deceased = [n \in Nrics |-> FALSE]
  /\ tokenByNric = [n \in Nrics |-> 0]
  /\ nextTokenId \in {0, 1}
  /\ records = [t \in 0..MaxMints |-> NoRecord]
  /\ tmpFiles = [p \in Paths |-> Absent]
  /\ store = {}
  /\ now = 0
  /\ op = [s \in Slots |-> IdleOp]
  /\ seq = 0
  /\ everBound = {}


\* ------------------------------------------------------- request plumbing
\* res.status(status).json(body): the handler's response; the handler returns.
Respond(o, status, body) ==
  [o EXCEPT !.pc = "done", !.status = status, !.body = body,
            !.responses = @ + 1]

\* catch (error) { res.status(500).json({ error: error.message }) }
\* of /upload, /bind-identity and /record-death.
Catch(o, message) == Respond(o, 500, [error |-> message])

\* catch (error) of /search-by-nric.
CatchSearch(o, message) ==
  Respond(o, 500, [error |-> "Failed to search NRIC", details |-> message])

\* An external call made by the request, with its outcome.
Call(o, name, ok) == [o EXCEPT !.calls = Append(@, <<name, ok>>)]

\* History: the bind the slot's previous request got confirmed, if that
\* request was a bind answered with success.
ConfirmedBind(o) ==
  IF o.kind = "bind" /\ o.status = 200
    THEN Some(<<o.nric, o.wallet>>)
    ELSE None

\* The request o arrives in slot s: Express invokes the handler.
Arrive(s, o) ==
  /\ ~Running(s)
  /\ seq < MaxRequests
  /\ seq' = seq + 1
  /\ op' = [op EXCEPT ![s] = [o EXCEPT !.after = ConfirmedBind(op[s])]]

\* The request in slot s takes a step to o.
Step(s, o) ==
  /\ op' = [op EXCEPT ![s] = o]
  /\ UNCHANGED seq

\* ------------------------------------------------------- uploadFileToIPFS
\* Variant of EnterUpload without the media-type check.
EnterUploadUnchecked(o, t) ==
  [o EXCEPT !.tempFilePath = TempPath(t, o.file.name), !.pc = "mv"]

\* Lines 164-170, up to the first await: the media-type check, the staging
\* path, and the start of file.mv.
EnterUpload(o, t) ==
  IF o.file.mimetype \notin allowedTypes
    THEN Catch(o, "Invalid file type. Only PDF, JPEG, PNG, or JSON allowed.")
    ELSE [o EXCEPT !.tempFilePath = TempPath(t, o.file.name), !.pc = "mv"]

\* Lines 179 and 189 / 231: uploadFileToIPFS returns cid.toString() to its
\* caller, /upload (which answers {cid}) or /record-death (which goes on).
ReturnCid(o, cid) ==
  IF o.kind = "upload"
    THEN Respond(o, 200, [cid |-> cid])
    ELSE [o EXCEPT !.finalCID = cid, !.pc = "d_auth"]

\* await file.mv(tempFilePath)
UpMv(s) ==
  /\ op[s].pc = "mv"
  /\ \/ /\ tmpFiles' = [tmpFiles EXCEPT ![op[s].tempFilePath] = op[s].file.data]
        /\ Step(s, [Call(op[s], "mv", TRUE) EXCEPT !.pc = "initClient"])
     \/ /\ UNCHANGED tmpFiles
        /\ Step(s, Catch(Call(op[s], "mv", FALSE), "staging write failed"))
  /\ UNCHANGED << ledger, store, now, everBound >>

\* const client = await initializeStorachaClient()
UpInitClient(s) ==
  /\ op[s].pc = "initClient"
  /\ \/ Step(s, [Call(op[s], "initializeStorachaClient", TRUE)
                   EXCEPT !.pc = "filesFromPaths"])
     \/ Step(s, Catch(Call(op[s], "initializeStorachaClient", FALSE),
                      "Missing one of: IPFS_STORAGE_KEY, IPFS_STORAGE_PROOF, IPFS_STORAGE_SPACE"))
  /\ UNCHANGED << ledger, tmpFiles, store, now, everBound >>

\* const files = await filesFromPaths([tempFilePath]);
\* if (!files.length) throw ...
UpFilesFromPaths(s) ==
  /\ op[s].pc = "filesFromPaths"
  /\ \/ /\ tmpFiles[op[s].tempFilePath] # Absent
        /\ Step(s, [Call(op[s], "filesFromPaths", TRUE)
                      EXCEPT !.pc = "uploadFile"])
     \/ /\ tmpFiles[op[s].tempFilePath] # Absent
        /\ Step(s, Catch(Call(op[s], "filesFromPaths", TRUE),
                         "Failed to load file from temp path"))
     \/ Step(s, Catch(Call(op[s], "filesFromPaths", FALSE), "ENOENT"))
  /\ UNCHANGED << ledger, tmpFiles, store, now, everBound >>

\* const cid = await client.uploadFile(files[0])
UpUploadFile(s) ==
  /\ op[s].pc = "uploadFile"
  /\ \/ /\ tmpFiles[op[s].tempFilePath] # Absent
        /\ store' = store \cup {CidOf(tmpFiles[op[s].tempFilePath])}
        /\ Step(s, [Call(op[s], "uploadFile", TRUE)
                      EXCEPT !.cid = CidOf(tmpFiles[op[s].tempFilePath]),
                             !.pc = "unlink"])
     \/ /\ UNCHANGED store
        /\ Step(s, Catch(Call(op[s], "uploadFile", FALSE), "storage unavailable"))
  /\ UNCHANGED << ledger, tmpFiles, now, everBound >>

\* await fs.unlink(tempFilePath); return cid.toString()
UpUnlink(s) ==
  /\ op[s].pc = "unlink"
  /\ \/ /\ tmpFiles[op[s].tempFilePath] # Absent
        /\ tmpFiles' = [tmpFiles EXCEPT ![op[s].tempFilePath] = Absent]
        /\ Step(s, ReturnCid(Call(op[s], "unlink", TRUE), op[s].cid))
     \/ /\ UNCHANGED tmpFiles
        /\ Step(s, Catch(Call(op[s], "unlink", FALSE), "unlink failed"))
  /\ UNCHANGED << ledger, store, now, everBound >>

\* ------------------------------------------------------------ POST /upload
\* Variant of UploadEntry without the `return` of the no-file answer: the
\* handler goes on, fails on the missing file and answers again in its catch.
UploadEntryNoReturn(o, t) ==
  IF o.file = NoFile
    THEN Catch(Respond(o, 400, [error |-> "No file uploaded"]),
               "Cannot read properties of undefined")
    ELSE EnterUpload(o, t)

\* Lines 185-188 up to the first await.
UploadEntry(o, t) ==
  IF o.file = NoFile
    THEN Respond(o, 400, [error |-> "No file uploaded"])
    ELSE EnterUpload(o, t)

StartUpload(s) ==
  /\ \E f \in Files \cup {NoFile} :
       Arrive(s, UploadEntry([IdleOp EXCEPT !.kind = "upload", !.file = f], now))
  /\ UNCHANGED << ledger, tmpFiles, store, now, everBound >>


\* ----------------------------------------------------- POST /bind-identity
\* Lines 198-201: the checks on the request body, before any external call.
BindEntry(o) ==
  IF o.nric = Empty \/ o.wallet = Empty
    THEN Respond(o, 400, [error |-> "NRIC and wallet address are required"])
  ELSE IF ~isAddress(o.wallet)
    THEN Respond(o, 400, [error |-> "Invalid wallet address"])
  ELSE IF o.wallet = ZeroAddress
    THEN Respond(o, 400, [error |-> "Wallet cannot be zero address"])
  ELSE [o EXCEPT !.pc = "b_nricToWallet"]

StartBind(s) ==
  /\ \E n \in Nrics \cup {Empty},
        w \in Wallets \cup {Empty, BadWallet, ZeroAddress} :
       Arrive(s, BindEntry([IdleOp EXCEPT !.kind = "bind", !.nric = n,
                                          !.wallet = w]))
  /\ UNCHANGED << ledger, tmpFiles, store, now, everBound >>

\* Lines 203-204: await initializeContract();
\* const existingWallet = await contract.nricToWallet(nric)
BindNricToWallet(s) ==
  /\ op[s].pc = "b_nricToWallet"
  /\ \/ Step(s, [Call(op[s], "nricToWallet", TRUE)
                   EXCEPT !.existingWallet = Some(nricToWallet[op[s].nric]),
                          !.pc = "b_walletToNric"])
     \/ Step(s, Catch(Call(op[s], "nricToWallet", FALSE), "upstream"))
  /\ UNCHANGED << ledger, tmpFiles, store, now, everBound >>

\* Variant of BindCheck without the "NRIC already bound" check.
BindCheckWalletOnly(o) ==
  IF o.existingNric # Some(Empty)
    THEN Respond(o, 400, [error |-> "Wallet already bound",
                          existingNric |-> o.existingNric[1]])
    ELSE [o EXCEPT !.pc = "b_auth"]

\* Variant of BindCheck without the "Wallet already bound" check.
BindCheckNricOnly(o) ==
  IF o.existingWallet # Some(ZeroAddress)
    THEN Respond(o, 400, [error |-> "NRIC already bound",
                          existingWallet |-> o.existingWallet[1]])
    ELSE [o EXCEPT !.pc = "b_auth"]

\* Variant of BindCheck that tests the wallet's binding before the nric's.
BindCheckSwapped(o) ==
  IF o.existingNric # Some(Empty)
    THEN Respond(o, 400, [error |-> "Wallet already bound",
                          existingNric |-> o.existingNric[1]])
  ELSE IF o.existingWallet # Some(ZeroAddress)
    THEN Respond(o, 400, [error |-> "NRIC already bound",
                          existingWallet |-> o.existingWallet[1]])
  ELSE [o EXCEPT !.pc = "b_auth"]

\* Lines 206-207: the two uniqueness checks, made once both reads are back.
BindCheck(o) ==
  IF o.existingWallet # Some(ZeroAddress)
    THEN Respond(o, 400, [error |-> "NRIC already bound",
                          existingWallet |-> o.existingWallet[1]])
  ELSE IF o.existingNric # Some(Empty)
    THEN Respond(o, 400, [error |-> "Wallet already bound",
                          existingNric |-> o.existingNric[1]])
  ELSE [o EXCEPT !.pc = "b_auth"]

\* Line 205: const existingNric = await contract.walletToNric(wallet)
BindWalletToNric(s) ==
  /\ op[s].pc = "b_walletToNric"
  /\ \/ Step(s, BindCheck([Call(op[s], "walletToNric", TRUE)
                   EXCEPT !.existingNric = Some(walletToNric[op[s].wallet])]))
     \/ Step(s, Catch(Call(op[s], "walletToNric", FALSE), "upstream"))
  /\ UNCHANGED << ledger, tmpFiles, store, now, everBound >>

\* Variant of BindAuthCheck that goes on whatever the read returned.
BindAuthCheckSkipped(o) == [o EXCEPT !.pc = "b_submit"]

\* Line 211: if (!isAuthorized) return 403
BindAuthCheck(o) ==
  IF o.isAuthorized # Some(TRUE)
    THEN Respond(o, 403, [error |-> "Not authorized registrar"])
    ELSE [o EXCEPT !.pc = "b_submit"]

\* Lines 209-210: const isAuthorized = await contract.authorizedRegistrars(...)
BindAuth(s) ==
  /\ op[s].pc = "b_auth"
  /\ \/ Step(s, BindAuthCheck([Call(op[s], "authorizedRegistrars", TRUE)
                                 EXCEPT !.isAuthorized = Some(authorized)]))
     \/ Step(s, Catch(Call(op[s], "authorizedRegistrars", FALSE), "upstream"))
  /\ UNCHANGED << ledger, tmpFiles, store, now, everBound >>

\* Variant of BindSubmit that submits only while the registry still shows
\* both the nric and the wallet unbound.
BindSubmitChecked(s) ==
  /\ op[s].pc = "b_submit"
  /\ nricToWallet[op[s].nric] = ZeroAddress
  /\ walletToNric[op[s].wallet] = Empty
  /\ Step(s, [Call(op[s], "bindIdentity", TRUE) EXCEPT !.pc = "b_wait"])
  /\ UNCHANGED << ledger, tmpFiles, store, now, everBound >>

\* Variant of BindSubmit that answers success as soon as the transaction is
\* submitted, without waiting for its receipt.
BindSubmitNoWait(s) ==
  /\ op[s].pc = "b_submit"
  /\ \/ Step(s, Respond(Call(op[s], "bindIdentity", TRUE), 200,
                        [message |-> "Identity bound successfully",
                         transactionHash |-> "0xtx", blockNumber |-> "block"]))
     \/ Step(s, Catch(Call(op[s], "bindIdentity", FALSE), "transaction rejected"))
  /\ UNCHANGED << ledger, tmpFiles, store, now, everBound >>

\* Line 213: const tx = await contract.bindIdentity(nric, wallet)
\* The transaction is submitted, or the submission is rejected.
BindSubmit(s) ==
  /\ op[s].pc = "b_submit"
  /\ \/ Step(s, [Call(op[s], "bindIdentity", TRUE) EXCEPT !.pc = "b_wait"])
     \/ Step(s, Catch(Call(op[s], "bindIdentity", FALSE), "transaction rejected"))
  /\ UNCHANGED << ledger, tmpFiles, store, now, everBound >>

\* The registry's bindIdentity(nric, wallet), applied atomically when the
\* transaction is mined.
LedgerBind(n, w) ==
  /\ nricToWallet' = [nricToWallet EXCEPT ![n] = w]
  /\ walletToNric' = [walletToNric EXCEPT ![w] = n]
  /\ everBound' = everBound \cup {<<n, w>>}
  /\ UNCHANGED << authorized, deceased, tokenByNric, records, nextTokenId >>

\* Line 215: the success answer of /bind-identity.
BindDone(o) ==
  Respond(o, 200, [message |-> "Identity bound successfully",
                   transactionHash |-> "0xtx", blockNumber |-> "block"])

\* Line 214: const receipt = await tx.wait().  The transaction is mined and
\* the receipt returned; or it reverts; or it is mined but the wait fails.
BindWait(s) ==
  /\ op[s].pc = "b_wait"
  /\ \/ /\ LedgerBind(op[s].nric, op[s].wallet)
        /\ Step(s, BindDone(Call(op[s], "wait", TRUE)))
     \/ /\ UNCHANGED << ledger, everBound >>
        /\ Step(s, Catch(Call(op[s], "wait", FALSE), "transaction reverted"))
     \/ /\ LedgerBind(op[s].nric, op[s].wallet)
        /\ Step(s, Catch(Call(op[s], "wait", FALSE), "wait failed"))
  /\ UNCHANGED << tmpFiles, store, now >>


\* ------------------------------------------------------ POST /record-death
\* Lines 224-231 up to the first await: the body checks and the choice
\* between the supplied CID and an upload of the attached file.
DeathEntry(o, t) ==
  IF o.nric = Empty
    THEN Respond(o, 400, [error |-> "NRIC is required"])
  ELSE IF o.metadataCID # Empty
    THEN [o EXCEPT !.finalCID = o.metadataCID, !.pc = "d_auth"]
  ELSE IF o.file = NoFile
    THEN Respond(o, 400, [error |-> "Either metadataCID or file is required"])
  ELSE EnterUpload(o, t)

StartDeath(s) ==
  /\ \E n \in Nrics \cup {Empty}, c \in GivenCIDs \cup {Empty},
        f \in Files \cup {NoFile} :
       Arrive(s, DeathEntry([IdleOp EXCEPT !.kind = "death", !.nric = n,
                                           !.metadataCID = c, !.file = f], now))
  /\ UNCHANGED << ledger, tmpFiles, store, now, everBound >>

\* Variant of DeathAuthCheck that goes on whatever the read returned.
DeathAuthCheckSkipped(o) == [o EXCEPT !.pc = "d_nricToWallet"]

\* Line 237: if (!isAuthorized) return 403
DeathAuthCheck(o) ==
  IF o.isAuthorized # Some(TRUE)
    THEN Respond(o, 403, [error |-> "Not authorized registrar"])
    ELSE [o EXCEPT !.pc = "d_nricToWallet"]

\* Lines 234-236: await initializeContract();
\* const isAuthorized = await contract.authorizedRegistrars(registrarAddress)
DeathAuth(s) ==
  /\ op[s].pc = "d_auth"
  /\ \/ Step(s, DeathAuthCheck([Call(op[s], "authorizedRegistrars", TRUE)
                                  EXCEPT !.isAuthorized = Some(authorized)]))
     \/ Step(s, Catch(Call(op[s], "authorizedRegistrars", FALSE), "upstream"))
  /\ UNCHANGED << ledger, tmpFiles, store, now, everBound >>

\* Variant of DeathBoundCheck that goes on whatever the read returned.
DeathBoundCheckSkipped(o) == [o EXCEPT !.pc = "d_submit"]

\* Line 240: if (boundWallet === ethers.ZeroAddress) return 404
DeathBoundCheck(o) ==
  IF o.boundWallet = Some(ZeroAddress)
    THEN Respond(o, 404, [error |-> "NRIC not registered"])
    ELSE [o EXCEPT !.pc = "d_submit"]

\* Variant of DeathNricToWallet that also reads isDeceased and refuses an
\* nric that is already marked deceased.
DeathNricToWalletGuarded(s) ==
  /\ op[s].pc = "d_nricToWallet"
  /\ \/ /\ ~deceased[op[s].nric]
        /\ Step(s, DeathBoundCheck([Call(op[s], "nricToWallet", TRUE)
                   EXCEPT !.boundWallet = Some(nricToWallet[op[s].nric])]))
     \/ /\ deceased[op[s].nric]
        /\ Step(s, Respond([Call(op[s], "nricToWallet", TRUE)
                   EXCEPT !.boundWallet = Some(nricToWallet[op[s].nric]),
                          !.isDeceased = Some(TRUE)],
                 400, [error |-> "Death already recorded"]))
     \/ Step(s, Catch(Call(op[s], "nricToWallet", FALSE), "upstream"))
  /\ UNCHANGED << ledger, tmpFiles, store, now, everBound >>

\* Line 239: const boundWallet = await contract.nricToWallet(nric)
DeathNricToWallet(s) ==
  /\ op[s].pc = "d_nricToWallet"
  /\ \/ Step(s, DeathBoundCheck([Call(op[s], "nricToWallet", TRUE)
                   EXCEPT !.boundWallet = Some(nricToWallet[op[s].nric])]))
     \/ Step(s, Catch(Call(op[s], "nricToWallet", FALSE), "upstream"))
  /\ UNCHANGED << ledger, tmpFiles, store, now, everBound >>

\* Variant of DeathSubmit that submits again after a rejected submission.
DeathSubmitRetry(s) ==
  /\ op[s].pc = "d_submit"
  /\ \/ Step(s, [Call(op[s], "recordDeath", TRUE) EXCEPT !.pc = "d_wait"])
     \/ /\ Len(op[s].calls) < 12
        /\ Step(s, Call(op[s], "recordDeath", FALSE))
  /\ UNCHANGED << ledger, tmpFiles, store, now, everBound >>

\* Line 242: const tx = await contract.recordDeath(nric, finalCID)
DeathSubmit(s) ==
  /\ op[s].pc = "d_submit"
  /\ \/ Step(s, [Call(op[s], "recordDeath", TRUE) EXCEPT !.pc = "d_wait"])
     \/ Step(s, Catch(Call(op[s], "recordDeath", FALSE), "transaction rejected"))
  /\ UNCHANGED << ledger, tmpFiles, store, now, everBound >>

\* The registry's recordDeath(nric, metadataCID): mints the next token for
\* the nric and stores its record, atomically when the transaction is mined.
LedgerRecordDeath(n, cid) ==
  /\ nextTokenId <= MaxMints
  /\ deceased' = [deceased EXCEPT ![n] = TRUE]
  /\ tokenByNric' = [tokenByNric EXCEPT ![n] = nextTokenId]
  /\ records' = [records EXCEPT ![nextTokenId] =
                   [metadataCID |-> cid, timestamp |-> now]]
  /\ nextTokenId' = nextTokenId + 1
  /\ UNCHANGED << nricToWallet, walletToNric, authorized >>

\* Line 244: the success answer of /record-death.
DeathDone(o) ==
  Respond(o, 200, [message |-> "Death recorded and SBT minted",
                   metadataCID |-> o.finalCID,
                   transactionHash |-> "0xtx", blockNumber |-> "block"])

\* Line 243: const receipt = await tx.wait()
DeathWait(s) ==
  /\ op[s].pc = "d_wait"
  /\ \/ /\ LedgerRecordDeath(op[s].nric, op[s].finalCID)
        /\ Step(s, DeathDone(Call(op[s], "wait", TRUE)))
     \/ /\ UNCHANGED ledger
        /\ Step(s, Catch(Call(op[s], "wait", FALSE), "transaction reverted"))
     \/ /\ LedgerRecordDeath(op[s].nric, op[s].finalCID)
        /\ Step(s, Catch(Call(op[s], "wait", FALSE), "wait failed"))
  /\ UNCHANGED << tmpFiles, store, now, everBound >>

\* ------------------------------------------------ GET /search-by-nric/:nric
StartSearch(s) ==
  /\ \E n \in Nrics :
       Arrive(s, [IdleOp EXCEPT !.kind = "search", !.nric = n,
                                !.pc = "s_nricToWallet"])
  /\ UNCHANGED << ledger, tmpFiles, store, now, everBound >>

\* Line 276: tokenId ? tokenId.toString() : null
TokenIdField(tokenId) ==
  IF tokenId # None /\ tokenId[1] # 0
    THEN Some(ToString(tokenId[1]))
    ELSE None

\* Line 278: isDeceased ? `ipfs://${record.metadataCID}` : null
TokenURIField(isDeceased, record) ==
  IF isDeceased THEN Some(TokenURI(record[1].metadataCID)) ELSE None

\* Lines 272-279: the success answer of /search-by-nric.
SearchDone(o) ==
  Respond(o, 200, [nric |-> o.nric,
                   wallet |-> o.boundWallet[1],
                   isDeceased |-> o.isDeceased[1],
                   tokenId |-> TokenIdField(o.tokenId),
                   record |-> o.record,
                   tokenURI |-> TokenURIField(o.isDeceased[1], o.record)])

\* Variant of SearchBoundCheck with the comparison inverted.
SearchBoundCheckInverted(o) ==
  IF o.boundWallet # Some(ZeroAddress)
    THEN Respond(o, 404, [error |-> "NRIC not registered"])
    ELSE [o EXCEPT !.pc = "s_isDeceased"]

\* Line 257: if (wallet === ethers.ZeroAddress) return 404
SearchBoundCheck(o) ==
  IF o.boundWallet = Some(ZeroAddress)
    THEN Respond(o, 404, [error |-> "NRIC not registered"])
    ELSE [o EXCEPT !.pc = "s_isDeceased"]

\* Lines 254-256: await initializeContract();
\* const wallet = await contract.nricToWallet(nric)
SearchNricToWallet(s) ==
  /\ op[s].pc = "s_nricToWallet"
  /\ \/ Step(s, SearchBoundCheck([Call(op[s], "nricToWallet", TRUE)
                   EXCEPT !.boundWallet = Some(nricToWallet[op[s].nric])]))
     \/ Step(s, CatchSearch(Call(op[s], "nricToWallet", FALSE), "upstream"))
  /\ UNCHANGED << ledger, tmpFiles, store, now, everBound >>

\* Variant of SearchDeceasedCheck that reads the token whatever isDeceased.
SearchDeceasedCheckAlways(o) == [o EXCEPT !.pc = "s_getTokenByNric"]

\* Line 263: if (isDeceased) { ... } and, when not, the answer.
SearchDeceasedCheck(o) ==
  IF o.isDeceased = Some(TRUE)
    THEN [o EXCEPT !.pc = "s_getTokenByNric"]
    ELSE SearchDone(o)

\* Line 259: const isDeceased = await contract.isDeceased(nric)
SearchIsDeceased(s) ==
  /\ op[s].pc = "s_isDeceased"
  /\ \/ Step(s, SearchDeceasedCheck([Call(op[s], "isDeceased", TRUE)
                   EXCEPT !.isDeceased = Some(deceased[op[s].nric])]))
     \/ Step(s, CatchSearch(Call(op[s], "isDeceased", FALSE), "upstream"))
  /\ UNCHANGED << ledger, tmpFiles, store, now, everBound >>

\* Line 264: tokenId = await contract.getTokenByNric(nric)
SearchGetTokenByNric(s) ==
  /\ op[s].pc = "s_getTokenByNric"
  /\ \/ Step(s, [Call(op[s], "getTokenByNric", TRUE)
                   EXCEPT !.tokenId = Some(tokenByNric[op[s].nric]),
                          !.pc = "s_records"])
     \/ Step(s, CatchSearch(Call(op[s], "getTokenByNric", FALSE), "upstream"))
  /\ UNCHANGED << ledger, tmpFiles, store, now, everBound >>

\* Lines 266-269: record = { metadataCID, timestamp: timestamp.toString() }
RecordField(r) ==
  Some([metadataCID |-> r.metadataCID, timestamp |-> ToString(r.timestamp)])

\* Line 265: record = await contract.records(tokenId)
SearchRecords(s) ==
  /\ op[s].pc = "s_records"
  /\ \/ Step(s, SearchDone([Call(op[s], "records", TRUE)
                   EXCEPT !.record = RecordField(records[op[s].tokenId[1]])]))
     \/ Step(s, CatchSearch(Call(op[s], "records", FALSE), "upstream"))
  /\ UNCHANGED << ledger, tmpFiles, store, now, everBound >>

\* ------------------------------------------------------------ environment
\* The registry owner's authorizeRegistrar(signer).
AuthorizeRegistrar ==
  /\ ~authorized
  /\ authorized' = TRUE
  /\ UNCHANGED << nricToWallet, walletToNric, deceased, tokenByNric, records,
                  nextTokenId, tmpFiles, store, now, op, seq, everBound >>

\* The registry owner revokes the signer's authorization.
RevokeRegistrar ==
  /\ authorized
  /\ authorized' = FALSE
  /\ UNCHANGED << nricToWallet, walletToNric, deceased, tokenByNric, records,
                  nextTokenId, tmpFiles, store, now, op, seq, everBound >>

\* Time passes: Date.now() and the block time advance.
Tick ==
  /\ now < MaxClock
  /\ now' = now + 1
  /\ UNCHANGED << ledger, tmpFiles, store, op, seq, everBound >>

Next ==
  \/ StartUpload(Main)
  \/ UpMv(Main)
  \/ UpInitClient(Main)
  \/ UpFilesFromPaths(Main)
  \/ UpUploadFile(Main)
  \/ UpUnlink(Main)
  \/ StartBind(Main)
  \/ BindNricToWallet(Main)
  \/ BindWalletToNric(Main)
  \/ BindAuth(Main)
  \/ BindSubmit(Main)
  \/ BindWait(Main)
  \/ StartDeath(Main)
  \/ DeathAuth(Main)
  \/ DeathNricToWallet(Main)
  \/ DeathSubmit(Main)
  \/ DeathWait(Main)
  \/ StartSearch(Main)
  \/ SearchNricToWallet(Main)
  \/ SearchIsDeceased(Main)
  \/ SearchGetTokenByNric(Main)
  \/ SearchRecords(Main)
  \/ AuthorizeRegistrar
  \/ RevokeRegistrar
  \/ Tick

Spec == Init /\ [][Next]_vars

\* A step of the request in slot s other than its arrival: one of its
\* awaited calls returns or fails.
Settle(s) ==
  \/ UpMv(s) \/ UpInitClient(s) \/ UpFilesFromPaths(s) \/ UpUploadFile(s)
  \/ UpUnlink(s)
  \/ BindNricToWallet(s) \/ BindWalletToNric(s) \/ BindAuth(s)
  \/ BindSubmit(s) \/ BindWait(s)
  \/ DeathAuth(s) \/ DeathNricToWallet(s) \/ DeathSubmit(s) \/ DeathWait(s)
  \/ SearchNricToWallet(s) \/ SearchIsDeceased(s) \/ SearchGetTokenByNric(s)
  \/ SearchRecords(s)


\* --------------------------------------------------- overlapping requests
\* A /bind-identity request with a well-formed body arrives in slot s while
\* the other slot may be in the middle of its own request.
StartBindRace(s) ==
  /\ \E n \in Nrics, w \in Wallets :
       Arrive(s, BindEntry([IdleOp EXCEPT !.kind = "bind", !.nric = n,
                                          !.wallet = w]))
  /\ UNCHANGED << ledger, tmpFiles, store, now, everBound >>

\* The event loop interleaving the awaits of two /bind-identity requests.
NextBindRace ==
  \/ \E s \in Slots : StartBindRace(s)
  \/ \E s \in Slots : BindNricToWallet(s)
  \/ \E s \in Slots : BindWalletToNric(s)
  \/ \E s \in Slots : BindAuth(s)
  \/ \E s \in Slots : BindSubmit(s)
  \/ \E s \in Slots : BindWait(s)
  \/ AuthorizeRegistrar
  \/ RevokeRegistrar

SpecBindRace == Init /\ [][NextBindRace]_vars

\* Two files of the same name and different bytes, as two clients send them.
RaceFiles == { [name |-> "cert.pdf", mimetype |-> "application/pdf", data |-> "d1"],
               [name |-> "cert.pdf", mimetype |-> "application/pdf", data |-> "d2"] }

\* A /upload request with a file arrives in slot s while the other slot may
\* be in the middle of its own upload.
StartUploadRace(s) ==
  /\ \E f \in RaceFiles :
       Arrive(s, UploadEntry([IdleOp EXCEPT !.kind = "upload", !.file = f], now))
  /\ UNCHANGED << ledger, tmpFiles, store, now, everBound >>

\* The event loop interleaving the awaits of two /upload requests.
NextUploadRace ==
  \/ \E s \in Slots : StartUploadRace(s)
  \/ \E s \in Slots : UpMv(s)
  \/ \E s \in Slots : UpInitClient(s)
  \/ \E s \in Slots : UpFilesFromPaths(s)
  \/ \E s \in Slots : UpUploadFile(s)
  \/ \E s \in Slots : UpUnlink(s)
  \/ Tick

SpecUploadRace == Init /\ [][NextUploadRace]_vars

\* ============================================================== properties
\* The positions of the calls named `name` in the request's call log.
CallsTo(o, name) == { i \in 1..Len(o.calls) : o.calls[i][1] = name }

\* The request made the call `name` and it returned.
Returned(o, name) == \E i \in CallsTo(o, name) : o.calls[i][2]

\* The request made a call that failed.
SomeCallFailed(o) == \E i \in 1..Len(o.calls) : ~o.calls[i][2]

\* The calls of uploadFileToIPFS that touch the staging directory or the store.
UploadCalls == {"mv", "initializeStorachaClient", "filesFromPaths",
                "uploadFile", "unlink"}

Uploaded(o) == \E n \in UploadCalls : CallsTo(o, n) # {}

\* ---------------------------------------------------------------------- C1
\* C1 (as stated): a record-death request answered 403 "Not authorized
\* registrar" has made no upload call and no recordDeath call.
C1_NoUploadBeforeReject ==
  \A s \in Slots :
    (op[s].kind = "death" /\ op[s].status = 403)
      => /\ ~Uploaded(op[s])
         /\ CallsTo(op[s], "recordDeath") = {}

\* C1 (amended): a record-death request whose authorizedRegistrars read
\* returned false is answered 403 at once and never issues recordDeath; it
\* has made no upload when a metadataCID was supplied, and when none was
\* supplied the attached file was uploaded before the authorization read.
C1_RejectBeforeWrite ==
  \A s \in Slots :
    (op[s].kind = "death" /\ op[s].isAuthorized = Some(FALSE))
      => /\ op[s].pc = "done"
         /\ op[s].status = 403
         /\ op[s].body = [error |-> "Not authorized registrar"]
         /\ CallsTo(op[s], "recordDeath") = {}
         /\ CallsTo(op[s], "wait") = {}
         /\ op[s].metadataCID # Empty => ~Uploaded(op[s])
         /\ op[s].metadataCID = Empty =>
              \E i \in CallsTo(op[s], "uploadFile"),
                 j \in CallsTo(op[s], "authorizedRegistrars") :
                   i < j /\ op[s].calls[i][2]

\* A request with a file and no CID was rejected as unauthorized after its
\* file had reached the store.
C1_Witness ==
  \E s \in Slots :
    /\ op[s].kind = "death" /\ op[s].status = 403
    /\ op[s].metadataCID = Empty
    /\ Returned(op[s], "uploadFile")
    /\ CidOf(op[s].file.data) \in store

\* ---------------------------------------------------------------------- C2
\* C2: once a request has written its staging file and has returned, the
\* staging file no longer exists.
C2_StagingFileDeleted ==
  \A s \in Slots :
    (op[s].pc = "done" /\ Returned(op[s], "mv"))
      => tmpFiles[op[s].tempFilePath] = Absent

\* ---------------------------------------------------------------------- C3
\* The request in slot s is a bind of an nric that the registry has bound
\* to a wallet other than the well-formed, non-zero wallet requested.
RebindsBound(s) ==
  /\ op[s].kind = "bind"
  /\ op[s].nric \in Nrics
  /\ op[s].wallet \in Wallets
  /\ nricToWallet[op[s].nric] \notin {ZeroAddress, op[s].wallet}

\* C3: a bind of an nric already bound to another wallet is answered
\* 400 "NRIC already bound" with the existing wallet as soon as the registry
\* has answered the two binding reads (a read that fails is answered 500),
\* submits no bindIdentity transaction, and leaves both mappings as they are.
C3_RebindRejected ==
  /\ [](\A s \in Slots :
          RebindsBound(s) =>
            /\ CallsTo(op[s], "bindIdentity") = {}
            /\ CallsTo(op[s], "wait") = {}
            /\ op[s].pc = "done" => op[s].status \in {400, 500}
            /\ op[s].status = 500 => SomeCallFailed(op[s])
            /\ (Returned(op[s], "nricToWallet") /\ Returned(op[s], "walletToNric"))
                 => /\ op[s].status = 400
                    /\ op[s].body = [error |-> "NRIC already bound",
                                     existingWallet |-> nricToWallet[op[s].nric]])
  /\ [][(\E s \in Slots : RebindsBound(s))
          => /\ nricToWallet' = nricToWallet
             /\ walletToNric' = walletToNric]_vars

\* A bind of a bound nric to the other wallet was answered with the conflict.
C3_Witness ==
  \E s \in Slots :
    /\ RebindsBound(s)
    /\ op[s].status = 400
    /\ op[s].body.error = "NRIC already bound"


\* ---------------------------------------------------------------------- C4
\* C4: a record-death request for an nric the registry holds unbound never
\* submits recordDeath; once the signer has been read as authorized and the
\* binding read has returned, it is answered 404 "NRIC not registered"; and
\* any request that did submit recordDeath had read a non-zero wallet first.
C4_UnboundNotRecorded ==
  \A s \in Slots :
    /\ (op[s].kind = "death" /\ op[s].nric \in Nrics
          /\ nricToWallet[op[s].nric] = ZeroAddress)
         => /\ CallsTo(op[s], "recordDeath") = {}
            /\ CallsTo(op[s], "wait") = {}
            /\ op[s].status # 200
            /\ Returned(op[s], "nricToWallet")
                 => /\ op[s].pc = "done"
                    /\ op[s].status = 404
                    /\ op[s].body = [error |-> "NRIC not registered"]
    /\ CallsTo(op[s], "recordDeath") # {}
         => /\ op[s].boundWallet # None
            /\ op[s].boundWallet[1] \in Wallets
            /\ op[s].boundWallet[1] = nricToWallet[op[s].nric]
            /\ \E i \in CallsTo(op[s], "nricToWallet"),
                  j \in CallsTo(op[s], "recordDeath") : i < j /\ op[s].calls[i][2]

\* An authorized record-death for an unbound nric was answered 404.
C4_Witness ==
  \E s \in Slots :
    /\ op[s].kind = "death" /\ op[s].status = 404
    /\ op[s].isAuthorized = Some(TRUE)
    /\ nricToWallet[op[s].nric] = ZeroAddress

\* ---------------------------------------------------------------------- C5
\* The request in slot s is a search of the nric that the request just
\* before it bound, with success, to a wallet.
SearchAfterBind(s) ==
  /\ op[s].kind = "search"
  /\ op[s].after # None
  /\ op[s].after[1][1] = op[s].nric

\* C5: a search that directly follows the confirmed bind of its nric is
\* never answered 404, is answered 500 only when one of its reads fails, and
\* otherwise answers the wallet just bound, isDeceased false, and null for
\* tokenId, record and tokenURI.
C5_SearchAfterBind ==
  \A s \in Slots :
    (SearchAfterBind(s) /\ op[s].pc = "done")
      => /\ op[s].status \in {200, 500}
         /\ op[s].status = 500 => SomeCallFailed(op[s])
         /\ op[s].status = 200 =>
              op[s].body = [nric |-> op[s].nric,
                            wallet |-> op[s].after[1][2],
                            isDeceased |-> FALSE,
                            tokenId |-> None,
                            record |-> None,
                            tokenURI |-> None]

\* A search directly after the confirmed bind of its nric was answered.
C5_Witness ==
  \E s \in Slots :
    /\ SearchAfterBind(s)
    /\ op[s].status = 200
    /\ op[s].body.wallet = op[s].after[1][2]

\* ---------------------------------------------------------------------- C6
\* C6: a search answered with isDeceased true carries, as tokenURI, the
\* string "ipfs://" followed by the metadataCID of the record the registry
\* stores under the token id that getTokenByNric returned, and the record
\* answered has that metadataCID.
C6_TokenURI ==
  \A s \in Slots :
    (op[s].kind = "search" /\ op[s].status = 200 /\ op[s].body.isDeceased)
      => /\ op[s].tokenId = Some(tokenByNric[op[s].nric])
         /\ op[s].body.tokenURI =
              Some("ipfs://" \o records[op[s].tokenId[1]].metadataCID)
         /\ op[s].body.record # None
         /\ op[s].body.record[1].metadataCID =
              records[op[s].tokenId[1]].metadataCID

\* A search of a deceased nric answered the tokenURI of an uploaded file.
C6_Witness ==
  \E s \in Slots :
    /\ op[s].kind = "search" /\ op[s].status = 200
    /\ op[s].body.isDeceased
    /\ op[s].body.tokenURI = Some("ipfs://bafy-d1")

\* ---------------------------------------------------------------------- C7
\* C7: in every search answered 200, tokenId is non-null exactly when
\* isDeceased is true, and so are record and tokenURI.
C7_TokenIdIffDeceased ==
  \A s \in Slots :
    (op[s].kind = "search" /\ op[s].status = 200)
      => /\ (op[s].body.tokenId # None) <=> op[s].body.isDeceased
         /\ (op[s].body.record # None) <=> op[s].body.isDeceased
         /\ (op[s].body.tokenURI # None) <=> op[s].body.isDeceased

\* ---------------------------------------------------------------------- C8
\* The request in slot s reached uploadFileToIPFS with a file whose media
\* type is not allowed.
UploadsBadType(s) ==
  /\ op[s].file # NoFile
  /\ op[s].file.mimetype \notin allowedTypes
  /\ \/ op[s].kind = "upload"
     \/ op[s].kind = "death" /\ op[s].nric # Empty /\ op[s].metadataCID = Empty

\* C8: an upload of a file whose media type is not pdf, jpeg, png or json
\* fails with the invalid-file-type error without a single call: no staging
\* file is written under its name and nothing is sent to the store.
C8_BadTypeRejected ==
  /\ \A s \in Slots :
       UploadsBadType(s)
         => /\ op[s].pc = "done"
            /\ op[s].status \notin {0, 200}
            /\ op[s].body =
                 [error |-> "Invalid file type. Only PDF, JPEG, PNG, or JSON allowed."]
            /\ op[s].calls = << >>
            /\ op[s].tempFilePath = Empty
  /\ \A f \in Files :
       f.mimetype \notin allowedTypes
         => \A t \in 0..MaxClock : tmpFiles[TempPath(t, f.name)] = Absent

\* A text/plain upload was rejected.
C8_Witness ==
  \E s \in Slots :
    /\ UploadsBadType(s)
    /\ op[s].file.mimetype = "text/plain"
    /\ op[s].pc = "done"

\* ---------------------------------------------------------------------- C9
\* C9: a request that has submitted bindIdentity or recordDeath has, earlier
\* in its own run, read authorizedRegistrars and got true; a request whose
\* read returned false has submitted nothing.
C9_WritesAuthorized ==
  \A s \in Slots :
    /\ \A j \in CallsTo(op[s], "bindIdentity") \cup CallsTo(op[s], "recordDeath") :
         /\ op[s].isAuthorized = Some(TRUE)
         /\ \E i \in CallsTo(op[s], "authorizedRegistrars") :
              i < j /\ op[s].calls[i][2]
    /\ op[s].isAuthorized # Some(TRUE)
         => /\ CallsTo(op[s], "bindIdentity") = {}
            /\ CallsTo(op[s], "recordDeath") = {}
            /\ CallsTo(op[s], "wait") = {}
    /\ CallsTo(op[s], "authorizedRegistrars") = {} => op[s].isAuthorized = None

\* A write was submitted while the signer's authorization had already been
\* revoked again: the request relied on its own earlier read.
C9_Witness ==
  \E s \in Slots :
    /\ CallsTo(op[s], "bindIdentity") \cup CallsTo(op[s], "recordDeath") # {}
    /\ op[s].isAuthorized = Some(TRUE)
    /\ ~authorized

\* --------------------------------------------------------------------- C10
\* C10: with requests handled one after the other, the bindIdentity writes
\* applied so far never gave one nric two wallets nor one wallet two nrics,
\* and the registry's two mappings hold exactly those bindings.
C10_OneToOne ==
  /\ \A b1 \in everBound, b2 \in everBound :
       /\ b1[1] = b2[1] => b1[2] = b2[2]
       /\ b1[2] = b2[2] => b1[1] = b2[1]
  /\ \A b \in everBound :
       /\ nricToWallet[b[1]] = b[2]
       /\ walletToNric[b[2]] = b[1]
  /\ \A n \in Nrics :
       nricToWallet[n] # ZeroAddress => <<n, nricToWallet[n]>> \in everBound

\* Both nrics are bound, each to its own wallet.
C10_Witness ==
  /\ Cardinality(everBound) = 2
  /\ \A n \in Nrics : nricToWallet[n] \in Wallets

\* --------------------------------------------------------------------- C11
\* C11: /upload answers 400 to a request without a file and 400 to a file
\* whose media type is not allowed; it answers 500 only to other failures.
C11_InvalidType400 ==
  \A s \in Slots :
    (op[s].kind = "upload" /\ op[s].pc = "done")
      => /\ op[s].file = NoFile => op[s].status = 400
         /\ (op[s].file # NoFile /\ op[s].file.mimetype \notin allowedTypes)
              => op[s].status = 400
         /\ op[s].status = 500
              => (op[s].file # NoFile /\ op[s].file.mimetype \in allowedTypes)

\* --------------------------------------------------------------------- C12
\* The request in slot s is a record-death whose evidence upload reached the
\* store and whose authorization read, binding read or recordDeath write
\* then failed.
FailedAfterUpload(s) ==
  /\ op[s].kind = "death"
  /\ op[s].pc = "done"
  /\ Returned(op[s], "uploadFile")
  /\ Returned(op[s], "unlink")
  /\ SomeCallFailed(op[s])

\* C12: a record-death that fails after its evidence upload succeeded is
\* answered as failed, its answer names the CID of the orphaned upload, and
\* the blob stays in the store.
C12_OrphanReported ==
  \A s \in Slots :
    FailedAfterUpload(s)
      => /\ op[s].status = 500
         /\ op[s].cid \in store
         /\ \E f \in DOMAIN op[s].body : op[s].body[f] = op[s].cid

\* --------------------------------------------------------------------- C13
\* The binds in slots s and t ask for the same nric with different wallets,
\* or for the same wallet with different nrics.
Conflicting(s, t) ==
  /\ s # t
  /\ op[s].kind = "bind" /\ op[t].kind = "bind"
  /\ \/ op[s].nric = op[t].nric /\ op[s].wallet # op[t].wallet
     \/ op[s].wallet = op[t].wallet /\ op[s].nric # op[t].nric

\* The bind in slot s has read both sentinels as unbound and the signer as
\* authorized.
PassedChecks(s) ==
  /\ op[s].kind = "bind"
  /\ op[s].existingWallet = Some(ZeroAddress)
  /\ op[s].existingNric = Some(Empty)
  /\ op[s].isAuthorized = Some(TRUE)

\* C13: a bind that has passed its own three reads goes on to submit
\* bindIdentity and to have it applied whatever another request has done to
\* the registry since those reads: nothing in the handler holds it back, so
\* two overlapping conflicting binds can both write.
C13_RaceNotPrevented ==
  \A s \in Slots :
    PassedChecks(s)
      => /\ op[s].pc \in {"b_submit", "b_wait", "done"}
         /\ op[s].pc = "b_submit" => ENABLED BindSubmit(s)
         /\ op[s].pc = "b_wait" => ENABLED BindWait(s)
         /\ op[s].pc = "done" => CallsTo(op[s], "bindIdentity") # {}

\* Two overlapping binds of one nric to different wallets both passed their
\* checks and both had their bindIdentity transaction submitted.
C13_Witness ==
  \E s \in Slots, t \in Slots :
    /\ Conflicting(s, t)
    /\ op[s].nric = op[t].nric
    /\ PassedChecks(s) /\ PassedChecks(t)
    /\ Returned(op[s], "bindIdentity") /\ Returned(op[t], "bindIdentity")

\* --------------------------------------------------------------------- C14
\* The body of the bind in slot s fails the checks made before any read.
InvalidBindBody(s) == op[s].nric = Empty \/ op[s].wallet \notin Wallets

\* C14: a bind is decided by the first check that fails, in the order body
\* (missing, malformed or zero wallet), nric already bound, wallet already
\* bound, signer not authorized; the authorization is not even read once a
\* binding check has failed, and bindIdentity is submitted exactly when all
\* of them pass.
C14_FirstFailingCheck ==
  \A s \in Slots :
    op[s].kind = "bind" =>
      /\ InvalidBindBody(s)
           => /\ op[s].status = 400
              /\ op[s].calls = << >>
              /\ op[s].body.error =
                   IF op[s].nric = Empty \/ op[s].wallet = Empty
                     THEN "NRIC and wallet address are required"
                   ELSE IF op[s].wallet = BadWallet
                     THEN "Invalid wallet address"
                   ELSE "Wallet cannot be zero address"
      /\ (CallsTo(op[s], "wait") = {} /\ op[s].existingWallet # None)
           => op[s].existingWallet = Some(nricToWallet[op[s].nric])
      /\ (CallsTo(op[s], "wait") = {} /\ op[s].existingNric # None)
           => op[s].existingNric = Some(walletToNric[op[s].wallet])
      /\ (~InvalidBindBody(s) /\ op[s].pc = "done" /\ ~SomeCallFailed(op[s]))
           => IF op[s].existingWallet # Some(ZeroAddress)
                THEN /\ op[s].status = 400
                     /\ op[s].body.error = "NRIC already bound"
                     /\ CallsTo(op[s], "authorizedRegistrars") = {}
              ELSE IF op[s].existingNric # Some(Empty)
                THEN /\ op[s].status = 400
                     /\ op[s].body.error = "Wallet already bound"
                     /\ CallsTo(op[s], "authorizedRegistrars") = {}
              ELSE IF op[s].isAuthorized # Some(TRUE)
                THEN /\ op[s].status = 403
                     /\ op[s].body.error = "Not authorized registrar"
              ELSE /\ op[s].status = 200
                   /\ Returned(op[s], "bindIdentity")
      /\ CallsTo(op[s], "bindIdentity") # {}
           => (~InvalidBindBody(s) /\ PassedChecks(s))
      /\ (~InvalidBindBody(s) /\ PassedChecks(s))
           => /\ op[s].pc \in {"b_submit", "b_wait", "done"}
              /\ op[s].pc # "b_submit" => CallsTo(op[s], "bindIdentity") # {}

\* A signer without authorization asked to bind a bound nric to a wallet
\* that is bound as well, and was answered "NRIC already bound".
C14_Witness ==
  \E s \in Slots :
    /\ op[s].kind = "bind"
    /\ op[s].status = 400
    /\ op[s].body.error = "NRIC already bound"
    /\ ~authorized
    /\ walletToNric[op[s].wallet] # Empty
    /\ nricToWallet[op[s].nric] # op[s].wallet

\* --------------------------------------------------------------------- C15
\* The names of all external calls a request can make.
CallNames == UploadCalls \cup {"nricToWallet", "walletToNric",
                               "authorizedRegistrars", "bindIdentity",
                               "recordDeath", "wait", "isDeceased",
                               "getTokenByNric", "records"}

\* C15: no request makes the same external call twice (one bindIdentity per
\* bind, one recordDeath and one store upload per record-death), and a call
\* that failed is the last call of its request, which is answered 500.
C15_NoRetry ==
  \A s \in Slots :
    /\ \A n \in CallNames : Cardinality(CallsTo(op[s], n)) <= 1
    /\ \A i \in 1..Len(op[s].calls) :
         /\ op[s].calls[i][1] \in CallNames
         /\ ~op[s].calls[i][2]
              => /\ i = Len(op[s].calls)
                 /\ op[s].pc = "done"
                 /\ op[s].status = 500
                 /\ op[s].responses = 1

\* A recordDeath submission was rejected and the request ended there.
C15_Witness ==
  \E s \in Slots :
    /\ op[s].kind = "death"
    /\ op[s].pc = "done"
    /\ Len(op[s].calls) > 0
    /\ op[s].calls[Len(op[s].calls)] = <<"recordDeath", FALSE>>

\* --------------------------------------------------------------------- C16
\* The name of the write a bind or record-death request submits.
WriteOf(o) == IF o.kind = "bind" THEN "bindIdentity" ELSE "recordDeath"

\* C16: a bind or record-death is answered with success, carrying the
\* transaction hash and block number, only after its transaction was
\* submitted and tx.wait() returned the receipt, the write then being in the
\* registry; a rejected submission or a failed wait is answered 500.
C16_SuccessAfterConfirmation ==
  \A s \in Slots :
    op[s].kind \in {"bind", "death"} =>
      /\ op[s].status = 200
           => /\ Len(op[s].calls) >= 2
              /\ op[s].calls[Len(op[s].calls)] = <<"wait", TRUE>>
              /\ op[s].calls[Len(op[s].calls) - 1] = <<WriteOf(op[s]), TRUE>>
              /\ op[s].body.transactionHash = "0xtx"
              /\ op[s].body.blockNumber = "block"
              /\ op[s].kind = "bind"
                   => <<op[s].nric, op[s].wallet>> \in everBound
              /\ op[s].kind = "death"
                   => /\ deceased[op[s].nric]
                      /\ op[s].body.metadataCID = op[s].finalCID
      /\ \A i \in CallsTo(op[s], WriteOf(op[s])) \cup CallsTo(op[s], "wait") :
           ~op[s].calls[i][2] => (op[s].pc = "done" /\ op[s].status = 500)
      /\ op[s].pc \in {"b_wait", "d_wait"} => op[s].status = 0

\* A record-death was answered with success after its receipt came back.
C16_Witness ==
  \E s \in Slots :
    /\ op[s].kind = "death"
    /\ op[s].status = 200
    /\ Returned(op[s], "wait")
    /\ deceased[op[s].nric]

\* --------------------------------------------------------------------- C17
\* C17: a record-death never reads isDeceased; once it has read the signer
\* as authorized and the nric as bound it goes on to submit recordDeath,
\* also for an nric the registry already marks deceased.
C17_NoDeceasedCheck ==
  \A s \in Slots :
    op[s].kind = "death" =>
      /\ CallsTo(op[s], "isDeceased") = {}
      /\ op[s].isDeceased = None
      /\ (op[s].isAuthorized = Some(TRUE) /\ op[s].boundWallet # None
            /\ op[s].boundWallet # Some(ZeroAddress))
           => /\ op[s].pc \in {"d_submit", "d_wait", "done"}
              /\ op[s].pc # "d_submit" => CallsTo(op[s], "recordDeath") # {}

\* recordDeath was submitted for an nric already marked deceased.
C17_Witness ==
  \E s \in Slots :
    /\ op[s].kind = "death"
    /\ op[s].pc = "d_wait"
    /\ Returned(op[s], "recordDeath")
    /\ deceased[op[s].nric]

\* --------------------------------------------------------------------- C18
\* The four registry reads of /search-by-nric.
SearchReads == {"nricToWallet", "isDeceased", "getTokenByNric", "records"}

\* C18: a search makes registry reads only, and its steps leave registry,
\* store and staging directory as they are; when the first read returns the
\* zero address it answers 404 with no further read; getTokenByNric and
\* records are read only after isDeceased has returned true, in that order.
C18_SearchReadOnly ==
  /\ [](\A s \in Slots :
          op[s].kind = "search" =>
            /\ \A i \in 1..Len(op[s].calls) : op[s].calls[i][1] \in SearchReads
            /\ op[s].boundWallet = Some(ZeroAddress)
                 => /\ op[s].pc = "done"
                    /\ op[s].status = 404
                    /\ op[s].body = [error |-> "NRIC not registered"]
                    /\ op[s].calls = << <<"nricToWallet", TRUE>> >>
            /\ \A j \in CallsTo(op[s], "getTokenByNric") \cup CallsTo(op[s], "records") :
                 /\ op[s].isDeceased = Some(TRUE)
                 /\ \E i \in CallsTo(op[s], "isDeceased") :
                      i < j /\ op[s].calls[i][2]
            /\ \A j \in CallsTo(op[s], "records") :
                 \E i \in CallsTo(op[s], "getTokenByNric") :
                   i < j /\ op[s].calls[i][2])
  /\ [][\A s \in Slots :
          (op'[s].kind = "search" /\ op'[s] # op[s])
            => UNCHANGED << ledger, store, tmpFiles, everBound >>]_vars

\* One search was answered 404 after a single read.
C18_Witness ==
  \E s \in Slots :
    /\ op[s].kind = "search"
    /\ op[s].status = 404
    /\ Len(op[s].calls) = 1

\* --------------------------------------------------------------------- C19
\* The request in slot s has written its staging file and has not yet
\* deleted it.
HoldsStagingFile(s) ==
  /\ Running(s)
  /\ Returned(op[s], "mv")
  /\ CallsTo(op[s], "unlink") = {}

\* C19: while a request holds its staging file, the file is there and holds
\* the request's own bytes: no other request has overwritten or deleted it.
C19_StagingFileOwned ==
  \A s \in Slots :
    HoldsStagingFile(s) => tmpFiles[op[s].tempFilePath] = op[s].file.data

\* --------------------------------------------------------------------- C20
\* An upper bound on the awaited calls a request still has ahead of it.
Rank(o) ==
  CASE o.pc = "mv"               -> IF o.kind = "death" THEN 9 ELSE 5
    [] o.pc = "initClient"       -> IF o.kind = "death" THEN 8 ELSE 4
    [] o.pc = "filesFromPaths"   -> IF o.kind = "death" THEN 7 ELSE 3
    [] o.pc = "uploadFile"       -> IF o.kind = "death" THEN 6 ELSE 2
    [] o.pc = "unlink"           -> IF o.kind = "death" THEN 5 ELSE 1
    [] o.pc = "b_nricToWallet"   -> 5
    [] o.pc = "b_walletToNric"   -> 4
    [] o.pc = "b_auth"           -> 3
    [] o.pc = "b_submit"         -> 2
    [] o.pc = "b_wait"           -> 1
    [] o.pc = "d_auth"           -> 4
    [] o.pc = "d_nricToWallet"   -> 3
    [] o.pc = "d_submit"         -> 2
    [] o.pc = "d_wait"           -> 1
    [] o.pc = "s_nricToWallet"   -> 4
    [] o.pc = "s_isDeceased"     -> 3
    [] o.pc = "s_getTokenByNric" -> 2
    [] o.pc = "s_records"        -> 1
    [] OTHER                     -> 0

\* C20: no request is ever answered twice, and it is answered exactly when
\* its handler is through; an answered request makes no further call and
\* changes nothing (its slot only changes when the next request arrives);
\* and every request gets its answer once its awaited calls return or fail:
\* a request that is not yet answered always has a call that can settle,
\* and each settled call brings it strictly closer to the answer.
C20_ExactlyOneResponse ==
  /\ [](\A s \in Slots :
          /\ op[s].responses <= 1
          /\ op[s].pc = "done" <=> op[s].responses = 1
          /\ op[s].pc = "done" <=> op[s].status # 0
          /\ Running(s) => ENABLED Settle(s))
  /\ [][\A s \in Slots :
          (op[s].pc = "done" /\ op'[s] # op[s])
            => /\ seq' = seq + 1
               /\ op'[s].calls = << >>
               /\ UNCHANGED << ledger, store, tmpFiles, everBound >>]_vars
  /\ [][\A s \in Slots :
          (Running(s) /\ op'[s] # op[s])
            => /\ Rank(op'[s]) < Rank(op[s])
               /\ Len(op'[s].calls) = Len(op[s].calls) + 1]_vars

\* One request of each kind has been answered in turn; the last is a search.
C20_Witness ==
  \E s \in Slots :
    /\ op[s].kind = "search"
    /\ op[s].pc = "done"
    /\ op[s].responses = 1
    /\ Len(op[s].calls) = 4

====
